---------------------------- MODULE Spec2Model ----------------------------
(***************************************************************************)
(* A model of the multiPCA9685 driver (src/src/multiPCA9685.cpp).          *)
(*                                                                         *)
(* PCA9685 is the per-chip driver: its constructor resets the chip and     *)
(* programs the prescaler, and setPWM writes one channel's on/off ticks.   *)
(* MultiPCA9685 owns one PCA9685 per configured (bus, address) pair and    *)
(* routes a flat motor index to a driver and one of its channels.          *)
(*                                                                         *)
(* The I2C transport (I2CDevice::writeRegister) is outside the driver: the *)
(* model records every call the driver makes to it, with the arguments the *)
(* driver passes, as the observable behaviour of an operation.             *)
(***************************************************************************)
EXTENDS Integers, Sequences, FiniteSets, TLC

(***************************************************************************)
(* Register map and constants of multiPCA9685.h.  The header is not part   *)
(* of the sources at hand; the values are the PCA9685's register map and   *)
(* the ones the specification names (16 channels, stride 4, 25 MHz clock,  *)
(* default 50 Hz).                                                         *)
(***************************************************************************)
MODE1 == 0
PRE_SCALE == 254
SERVO0 == 6
MULTIPLIER == 4
CLOCK_FREQ == 25000000
outputsPerDriver == 16
DefaultFrequency == 50

(***************************************************************************)
(* Bounds and input sets of the model.                                     *)
(***************************************************************************)
MaxDrivers == 3

\* The (bus, address) pairs a configuration is built from (the first two
\* pairs of examples/multi_example.cpp).
PairPool == {<<1, 64>>, <<3, 65>>}

\* Every configuration: a sequence of at most MaxDrivers pairs, repeats and
\* both orders included.
Configs == UNION {[1..n -> PairPool] : n \in 0..MaxDrivers}

\* Frequencies the aggregate is configured with.
Frequencies == {DefaultFrequency, 60}

\* uint8_t motorIndex: indices on each of the first four drivers, at and
\* around the driver boundaries, and indices past every configured driver.
MotorIndices == {0, 17, 31, 32, 48, 63, 64, 255}

\* uint16_t tick values handed to setPWM in Spec (0x155, 0xFAB, 0x1000).
OnTicks == {0, 341}
OffTicks == {4011, 4096}

\* Channels handed to a PCA9685 used on its own in Spec.
Servos == {15}

\* FreqSpec: every frequency a uint8_t holds, and frequencies of the chip's
\* range (24 Hz to 1526 Hz) above 255 Hz.
AllFrequencies == (0..255) \cup {300, 1000, 1526}

\* EncSpec: channels in and out of 0..15, and tick values around the byte
\* and 12-bit boundaries (0x155, 0xFAB, 0x1000, 0xFFFF).
EncServos == (0..15) \cup {16, 255}
EncTicks == {0, 341, 4011, 4096, 65535}

(***************************************************************************)
(* C++ integer conversions and operators, on non-negative integers.        *)
(***************************************************************************)
\* static_cast<uint8_t>(x) of an integer x.
CastU8(x) == x % 256

\* x >> n
Shr(x, n) == x \div (2 ^ n)

\* x & y
RECURSIVE BitAnd(_, _)
BitAnd(x, y) ==
    IF x = 0 \/ y = 0 THEN 0
    ELSE (IF x % 2 = 1 /\ y % 2 = 1 THEN 1 ELSE 0)
         + 2 * BitAnd(x \div 2, y \div 2)

\* The integer part of num/den, den > 0 (a conversion from double to an
\* integer type drops the fraction, towards zero).
Truncate(num, den) ==
    IF num >= 0 THEN num \div den ELSE 0 - ((0 - num) \div den)

(***************************************************************************)
(* Calls to the transport.  writeRegister(reg, value) is a "byte" write,   *)
(* writeRegister(reg, data, length) is a "block" write.                    *)
(***************************************************************************)
WriteByte(reg, value) == [kind |-> "byte", reg |-> reg, data |-> <<value>>]

WriteBlock(reg, data, length) ==
    [kind |-> "block", reg |-> reg, data |-> SubSeq(data, 1, length)]

(***************************************************************************)
(* PCA9685: the single driver.  Each method is the sequence of transport   *)
(* calls it makes on the driver's own I2C handle.                          *)
(***************************************************************************)
PCA9685_reset == <<WriteByte(MODE1, 32)>>

\* (CLOCK_FREQ / (4096 * freq)) - 1 + 0.5 converted to an integer: the
\* quotient is a double, so the value is (2*CLOCK_FREQ - 4096*freq) /
\* (2*4096*freq) with its fraction dropped.  (No frequency makes the quotient
\* fall within double precision of a half-integer, so exact arithmetic gives
\* the double's integer part.)
PrescaleTrunc(freq) ==
    Truncate(2 * CLOCK_FREQ - 4096 * freq, 2 * 4096 * freq)

\* The values static_cast<uint8_t> may give prescale_val.  Converting a double
\* whose integer part is not representable in uint8_t (and the infinity of
\* freq = 0) is undefined: any byte may result.
PrescaleValues(freq) ==
    IF freq > 0 /\ PrescaleTrunc(freq) \in 0..255
    THEN {PrescaleTrunc(freq)}
    ELSE 0..255

\* Faulty variant of setFreq: PRE_SCALE is written before the chip sleeps.
PCA9685_setFreq_awake(prescale_val) ==
    << WriteByte(PRE_SCALE, prescale_val),
       WriteByte(MODE1, 16),
       WriteByte(MODE1, 160) >>

PCA9685_setFreq(prescale_val) ==
    << WriteByte(MODE1, 16),
       WriteByte(PRE_SCALE, prescale_val),
       WriteByte(MODE1, 160) >>

\* Faulty variant of the constructor: the reset is left out.
PCA9685_construct_noReset(prescale_val) == PCA9685_setFreq(prescale_val)

\* The constructor, after it has acquired the handle.
PCA9685_construct(prescale_val) ==
    PCA9685_reset \o PCA9685_setFreq(prescale_val)

\* Faulty variant of setPWM: four single-byte writes instead of one block.
PCA9685_setPWM_bytewise(servo, on_value, off_value) ==
    LET reg == SERVO0 + MULTIPLIER * servo
    IN  << WriteByte(reg, CastU8(BitAnd(on_value, 255))),
           WriteByte(reg + 1, CastU8(Shr(on_value, 8))),
           WriteByte(reg + 2, CastU8(BitAnd(off_value, 255))),
           WriteByte(reg + 3, CastU8(Shr(off_value, 8))) >>

\* Variant of setPWM that masks the ticks to 12 bits.
PCA9685_setPWM_masked(servo, on_value, off_value) ==
    LET data == << CastU8(BitAnd(on_value, 255)),
                   CastU8(BitAnd(Shr(on_value, 8), 15)),
                   CastU8(BitAnd(off_value, 255)),
                   CastU8(BitAnd(Shr(off_value, 8), 15)) >>
    IN  <<WriteBlock(SERVO0 + MULTIPLIER * servo, data, 4)>>

PCA9685_setPWM(servo, on_value, off_value) ==
    LET data == << CastU8(BitAnd(on_value, 255)),
                   CastU8(Shr(on_value, 8)),
                   CastU8(BitAnd(off_value, 255)),
                   CastU8(Shr(off_value, 8)) >>
    IN  <<WriteBlock(SERVO0 + MULTIPLIER * servo, data, 4)>>

PCA9685_setPWM2(servo, value) == PCA9685_setPWM(servo, 0, value)

(***************************************************************************)
(* State.                                                                  *)
(***************************************************************************)
VARIABLES
    pc,               \* "new" until MultiPCA9685's constructor has returned
    busAddressPairs,  \* MultiPCA9685::busAddressPairs
    numDrivers,       \* MultiPCA9685::numDrivers
    DevFrequency,     \* MultiPCA9685::DevFrequency
    pwmDrivers,       \* MultiPCA9685::pwmDrivers, each driver by its handle
    PCA9685_DEBUG,    \* the debug flag
    solo,             \* a PCA9685 used on its own, or NoDriver
    head,             \* per driver: the first HeadLen writes it has issued
    call,             \* the last call and the state it was made in
    writes,           \* the transport calls the last call made, in order
    lines             \* the console lines the last call printed, in order

vars == << pc, busAddressPairs, numDrivers, DevFrequency, pwmDrivers,
           PCA9685_DEBUG, solo, head, call, writes, lines >>

NoDriver == [id |-> -1, bus |-> 0, addr |-> 0]

\* Driver objects are told apart by id: 0 is the driver used on its own,
\* k >= 1 is the k-th element of pwmDrivers.
DriverIds == 0..MaxDrivers

\* The number of writes of each driver that head keeps: as many as its
\* constructor issues.
HeadLen == Len(PCA9685_construct(0))

\* I2CDevice(bus, deviceAddress) as acquired by PCA9685's constructor, whose
\* parameters are uint8_t.
NewDriver(id, bus, deviceAddress) ==
    [id |-> id, bus |-> CastU8(bus), addr |-> CastU8(deviceAddress)]

\* The calls ops made through driver d's handle.
Via(d, ops) ==
    [i \in 1..Len(ops) |->
        [drv |-> d.id, bus |-> d.bus, addr |-> d.addr,
         kind |-> ops[i].kind, reg |-> ops[i].reg, data |-> ops[i].data]]

RECURSIVE Flatten(_)
Flatten(ss) == IF ss = <<>> THEN <<>> ELSE Head(ss) \o Flatten(Tail(ss))

WritesOf(id, ws) == SelectSeq(ws, LAMBDA w : w.drv = id)

Take(s, n) == SubSeq(s, 1, IF Len(s) < n THEN Len(s) ELSE n)

\* head after the writes ws.
Observe(h, ws) == [id \in DriverIds |-> Take(h[id] \o WritesOf(id, ws), HeadLen)]

\* What a call remembers of the state it was made in.
Snapshot ==
    [pc |-> pc, pairs |-> busAddressPairs, n |-> numDrivers,
     freq |-> DevFrequency, drivers |-> pwmDrivers, debug |-> PCA9685_DEBUG,
     solo |-> solo, prevToggle |-> (call.op = "toggleDebug"),
     prevDebug |-> call.pre.debug]

Call(op, a, b, c) == [op |-> op, a |-> a, b |-> b, c |-> c, pre |-> Snapshot]

NoSnapshot ==
    [pc |-> "new", pairs |-> <<>>, n |-> 0, freq |-> 0, drivers |-> <<>>,
     debug |-> FALSE, solo |-> NoDriver, prevToggle |-> FALSE,
     prevDebug |-> FALSE]

Init ==
    /\ pc = "new"
    /\ busAddressPairs = <<>>
    /\ numDrivers = 0
    /\ DevFrequency = 0
    /\ pwmDrivers = <<>>
    /\ PCA9685_DEBUG = FALSE
    /\ solo = NoDriver
    /\ head = [id \in DriverIds |-> <<>>]
    /\ call = [op |-> "none", a |-> 0, b |-> 0, c |-> 0, pre |-> NoSnapshot]
    /\ writes = <<>>
    /\ lines = <<>>

(***************************************************************************)
(* MultiPCA9685: the aggregate.                                            *)
(***************************************************************************)
\* Faulty variant of DriverIndex: the quotient is rounded up.
DriverIndex_roundsUp(motorIndex) ==
    CastU8((motorIndex + outputsPerDriver - 1) \div outputsPerDriver)

\* uint8_t driverIndex = motorIndex / outputsPerDriver
DriverIndex(motorIndex) == CastU8(motorIndex \div outputsPerDriver)

\* uint8_t channel = motorIndex % outputsPerDriver
Channel(motorIndex) == CastU8(motorIndex % outputsPerDriver)

\* The line setPWM prints when the debug flag is set.
DebugLine(motorIndex, on, off) ==
    LET driverIndex == DriverIndex(motorIndex)
        bus_address == busAddressPairs[driverIndex + 1]
    IN  [kind |-> "setPWM", on |-> on, off |-> off, motor |-> motorIndex,
         board |-> driverIndex, channel |-> Channel(motorIndex),
         addr |-> bus_address[2], bus |-> bus_address[1]]

\* Faulty variant of setPWM: the debug line is printed before the range
\* check (the pair it names is read only when there is one).
MultiPCA9685_setPWM_printsFirst(motorIndex, on, off) ==
    LET driverIndex == DriverIndex(motorIndex)
        channel == Channel(motorIndex)
        inRange == driverIndex < numDrivers
        printed == IF ~PCA9685_DEBUG THEN <<>>
                   ELSE IF inRange THEN <<DebugLine(motorIndex, on, off)>>
                   ELSE <<[kind |-> "setPWM", on |-> on, off |-> off,
                           motor |-> motorIndex, board |-> driverIndex,
                           channel |-> channel, addr |-> 0, bus |-> 0]>>
    IN  [lines  |-> printed,
         writes |-> IF inRange
                    THEN Via(pwmDrivers[driverIndex + 1],
                             PCA9685_setPWM(channel, on, off))
                    ELSE <<>>]

\* setPWM(motorIndex, on, off): what it prints and what it writes.
\* (pwmDrivers is 0-based in the code and 1-based here.)
MultiPCA9685_setPWM(motorIndex, on, off) ==
    LET driverIndex == DriverIndex(motorIndex)
        channel == Channel(motorIndex)
    IN  IF driverIndex < numDrivers
        THEN [lines  |-> IF PCA9685_DEBUG
                         THEN <<DebugLine(motorIndex, on, off)>>
                         ELSE <<>>,
              writes |-> Via(pwmDrivers[driverIndex + 1],
                             PCA9685_setPWM(channel, on, off))]
        ELSE [lines |-> <<>>, writes |-> <<>>]

\* Faulty variant of setPWM(motorIndex, val): val is passed as the on time.
MultiPCA9685_setPWM2_swapped(motorIndex, val) ==
    MultiPCA9685_setPWM(motorIndex, val, 0)

\* setPWM(motorIndex, val)
MultiPCA9685_setPWM2(motorIndex, val) == MultiPCA9685_setPWM(motorIndex, 0, val)

\* Faulty variant of toggleDebug: the flag is set instead of inverted.
MultiPCA9685_toggleDebug_sets == TRUE

\* The flag after toggleDebug.
MultiPCA9685_toggleDebug == ~PCA9685_DEBUG

\* The lines getSetup prints.
MultiPCA9685_getSetup ==
    << [kind |-> "title"],
       [kind |-> "drivers", n |-> numDrivers],
       [kind |-> "frequency", hz |-> DevFrequency] >>
    \o [i \in 1..Len(busAddressPairs) |->
          [kind |-> "driver", pos |-> i, bus |-> busAddressPairs[i][1],
           addr |-> busAddressPairs[i][2]]]

(***************************************************************************)
(* Operations.                                                             *)
(***************************************************************************)
\* MultiPCA9685(bus_address_pairs, frequency): one PCA9685 per pair, in the
\* order of the pairs, each constructed (reset, setFreq) as it is added.
\* frequency is the caller's argument; the parameter is uint8_t.
MultiConstruct(bus_address_pairs, frequency) ==
    /\ pc = "new"
    /\ \E pv \in [1..Len(bus_address_pairs) ->
                     PrescaleValues(CastU8(frequency))] :
         LET drivers == [k \in 1..Len(bus_address_pairs) |->
                            NewDriver(k, bus_address_pairs[k][1],
                                      bus_address_pairs[k][2])]
             issued == Flatten([k \in 1..Len(bus_address_pairs) |->
                            Via(drivers[k], PCA9685_construct(pv[k]))])
         IN  /\ pwmDrivers' = drivers
             /\ writes' = issued
             /\ head' = Observe(head, issued)
    /\ pc' = "ready"
    /\ busAddressPairs' = bus_address_pairs
    /\ numDrivers' = Len(bus_address_pairs)
    /\ DevFrequency' = CastU8(frequency)
    /\ lines' = <<>>
    /\ call' = Call("MultiPCA9685", Len(bus_address_pairs), frequency, 0)
    /\ UNCHANGED << PCA9685_DEBUG, solo >>

MultiSetPWM3(motorIndex, on, off) ==
    /\ pc = "ready"
    /\ LET r == MultiPCA9685_setPWM(motorIndex, on, off)
       IN  /\ writes' = r.writes
           /\ lines' = r.lines
           /\ head' = Observe(head, r.writes)
    /\ call' = Call("setPWM3", motorIndex, on, off)
    /\ UNCHANGED << pc, busAddressPairs, numDrivers, DevFrequency, pwmDrivers,
                    PCA9685_DEBUG, solo >>

MultiSetPWM2(motorIndex, val) ==
    /\ pc = "ready"
    /\ LET r == MultiPCA9685_setPWM2(motorIndex, val)
       IN  /\ writes' = r.writes
           /\ lines' = r.lines
           /\ head' = Observe(head, r.writes)
    /\ call' = Call("setPWM2", motorIndex, val, 0)
    /\ UNCHANGED << pc, busAddressPairs, numDrivers, DevFrequency, pwmDrivers,
                    PCA9685_DEBUG, solo >>

ToggleDebug ==
    /\ pc = "ready"
    /\ PCA9685_DEBUG' = MultiPCA9685_toggleDebug
    /\ lines' = <<[kind |-> "debug", on |-> PCA9685_DEBUG']>>
    /\ writes' = <<>>
    /\ call' = Call("toggleDebug", 0, 0, 0)
    /\ UNCHANGED << pc, busAddressPairs, numDrivers, DevFrequency, pwmDrivers,
                    solo, head >>

GetSetup ==
    /\ pc = "ready"
    /\ lines' = MultiPCA9685_getSetup
    /\ writes' = <<>>
    /\ call' = Call("getSetup", 0, 0, 0)
    /\ UNCHANGED << pc, busAddressPairs, numDrivers, DevFrequency, pwmDrivers,
                    PCA9685_DEBUG, solo, head >>

\* PCA9685(bus, deviceAddress, freq), a driver used on its own.  freq is the
\* caller's argument; the parameter is uint8_t.
SoloConstruct(bus, deviceAddress, freq) ==
    /\ solo = NoDriver
    /\ \E prescale_val \in PrescaleValues(CastU8(freq)) :
         LET d == NewDriver(0, bus, deviceAddress)
             issued == Via(d, PCA9685_construct(prescale_val))
         IN  /\ solo' = d
             /\ writes' = issued
             /\ head' = Observe(head, issued)
    /\ lines' = <<>>
    /\ call' = Call("PCA9685", bus, deviceAddress, freq)
    /\ UNCHANGED << pc, busAddressPairs, numDrivers, DevFrequency, pwmDrivers,
                    PCA9685_DEBUG >>

SoloSetPWM3(servo, on_value, off_value) ==
    /\ solo # NoDriver
    /\ LET issued == Via(solo, PCA9685_setPWM(servo, on_value, off_value))
       IN  /\ writes' = issued
           /\ head' = Observe(head, issued)
    /\ lines' = <<>>
    /\ call' = Call("PCA9685.setPWM3", servo, on_value, off_value)
    /\ UNCHANGED << pc, busAddressPairs, numDrivers, DevFrequency, pwmDrivers,
                    PCA9685_DEBUG, solo >>

SoloSetPWM2(servo, value) ==
    /\ solo # NoDriver
    /\ LET issued == Via(solo, PCA9685_setPWM2(servo, value))
       IN  /\ writes' = issued
           /\ head' = Observe(head, issued)
    /\ lines' = <<>>
    /\ call' = Call("PCA9685.setPWM2", servo, value, 0)
    /\ UNCHANGED << pc, busAddressPairs, numDrivers, DevFrequency, pwmDrivers,
                    PCA9685_DEBUG, solo >>

(***************************************************************************)
(* Spec: a program that configures one MultiPCA9685 and uses it, and may   *)
(* also use one PCA9685 on its own.                                        *)
(***************************************************************************)
Next ==
    \/ \E ps \in Configs, f \in Frequencies : MultiConstruct(ps, f)
    \/ \E i \in MotorIndices, on \in OnTicks, off \in OffTicks :
          MultiSetPWM3(i, on, off)
    \/ \E i \in MotorIndices, val \in OffTicks : MultiSetPWM2(i, val)
    \/ ToggleDebug
    \/ GetSetup
    \/ SoloConstruct(1, 66, DefaultFrequency)
    \/ \E s \in Servos, on \in OnTicks, off \in OffTicks :
          SoloSetPWM3(s, on, off)
    \/ \E s \in Servos, val \in OffTicks : SoloSetPWM2(s, val)

Spec == Init /\ [][Next]_vars

(***************************************************************************)
(* FreqSpec: one PCA9685 constructed with any frequency, then used.        *)
(***************************************************************************)
FreqNext ==
    \/ \E f \in AllFrequencies : SoloConstruct(1, 64, f)
    \/ \E s \in Servos : SoloSetPWM3(s, 341, 4011)
    \/ \E s \in Servos : SoloSetPWM2(s, 4011)

FreqSpec == Init /\ [][FreqNext]_vars

(***************************************************************************)
(* EncSpec: one PCA9685 at the default frequency, its setPWM called with a *)
(* wide set of channels and tick values.                                   *)
(***************************************************************************)
EncNext ==
    \/ SoloConstruct(1, 64, DefaultFrequency)
    \/ \E s \in EncServos, on \in EncTicks, off \in EncTicks :
          SoloSetPWM3(s, on, off)
    \/ \E s \in EncServos, val \in EncTicks : SoloSetPWM2(s, val)

EncSpec == Init /\ [][EncNext]_vars

(***************************************************************************)
(* Vocabulary of the properties.                                           *)
(***************************************************************************)
\* The last call was MultiPCA9685::setPWM, either overload.
IsMultiSetPWM == call.op \in {"setPWM3", "setPWM2"}

\* The on and off ticks the last MultiPCA9685::setPWM call asked for.
AskedOn == IF call.op = "setPWM3" THEN call.b ELSE 0
AskedOff == IF call.op = "setPWM3" THEN call.c ELSE call.b

\* The last call left the aggregate and the stand-alone driver as they were.
ObjectsUnchanged ==
    /\ pc = call.pre.pc
    /\ busAddressPairs = call.pre.pairs
    /\ numDrivers = call.pre.n
    /\ DevFrequency = call.pre.freq
    /\ pwmDrivers = call.pre.drivers
    /\ solo = call.pre.solo

\* The 16-bit little-endian word at bytes i, i+1 of data.
Word(data, i) == data[i] + 256 * data[i + 1]

\* n/d rounded to the nearest integer, halves up (n >= 0, d > 0).
RoundHalfUp(n, d) == (2 * n + d) \div (2 * d)

\* w is the single-byte write of value to register reg.
IsByteWrite(w, reg, value) ==
    w.kind = "byte" /\ w.reg = reg /\ w.data = <<value>>

\* The j-th write of a driver's initialization: reset, then setFreq's three.
IsInitWrite(w, j) ==
    \/ j = 1 /\ IsByteWrite(w, MODE1, 32)
    \/ j = 2 /\ IsByteWrite(w, MODE1, 16)
    \/ j = 3 /\ w.kind = "byte" /\ w.reg = PRE_SCALE
             /\ Len(w.data) = 1 /\ w.data[1] \in 0..255
    \/ j = 4 /\ IsByteWrite(w, MODE1, 160)

\* The value of the last write to MODE1 among the first n writes of ws made
\* by driver id, or -1 when there is none.
RECURSIVE LastMode1(_, _, _)
LastMode1(ws, n, id) ==
    IF n = 0 THEN -1
    ELSE IF ws[n].drv = id /\ ws[n].reg = MODE1 THEN ws[n].data[1]
    ELSE LastMode1(ws, n - 1, id)

(***************************************************************************)
(* Properties.                                                             *)
(***************************************************************************)

\* C1: for an aggregate of N drivers and a flat index i in 0..16*N-1,
\* setPWM(i, on, off) makes exactly the transport calls of one
\* PCA9685::setPWM(i % 16, on, off), all through the handle of the driver at
\* position i / 16 of the configuration; no other driver writes anything.
C1_RoutesToDriverAndChannel ==
    (call.op = "setPWM3" /\ call.a \in 0..(16 * call.pre.n - 1)) =>
        LET pos == (call.a \div 16) + 1
        IN  /\ pos \in 1..numDrivers
            /\ writes = Via(NewDriver(pos, busAddressPairs[pos][1],
                                      busAddressPairs[pos][2]),
                            PCA9685_setPWM(call.a % 16, call.b, call.c))
            /\ Len(writes) = 1
            /\ \A i \in 1..Len(writes) : writes[i].drv = pos
            /\ writes[1].reg = SERVO0 + 4 * (call.a % 16)

\* Index 17 of a two-driver aggregate reached the second driver, channel 1.
C1_Witness ==
    /\ call.op = "setPWM3" /\ call.a = 17 /\ numDrivers = 2
    /\ Len(writes) = 1 /\ writes[1].drv = 2
    /\ writes[1].reg = SERVO0 + 4

\* C2: PCA9685::setPWM(ch, on, off) makes exactly one transport call, a
\* 4-byte block write at register SERVO0 + 4*ch of the bytes on's low, on's
\* high, off's low, off's high (0x0155, 0x0FAB give 0x55 0x01 0xAB 0x0F); it
\* makes no single-byte write.
C2_OneBlockWrite ==
    (call.op = "PCA9685.setPWM3") =>
        /\ Len(writes) = 1
        /\ writes[1].kind = "block"
        /\ writes[1].reg = SERVO0 + 4 * call.a
        /\ writes[1].data = << call.b % 256, call.b \div 256,
                               call.c % 256, call.c \div 256 >>
        /\ \A i \in 1..4 : writes[1].data[i] \in 0..255
        /\ (call.b = 341 /\ call.c = 4011) =>
               writes[1].data = <<85, 1, 171, 15>>

\* setPWM(ch, 0x0155, 0x0FAB) on channel 15 wrote its block.
C2_Witness ==
    /\ call.op = "PCA9685.setPWM3" /\ call.a = 15
    /\ call.b = 341 /\ call.c = 4011
    /\ Len(writes) = 1 /\ writes[1].data = <<85, 1, 171, 15>>

\* The byte the last constructor call wrote to PRE_SCALE is
\* round(25,000,000 / (4096 * freq)) - 1 for the frequency asked for, halves
\* rounding up, and that number is in 0..255.
PrescaleIsRounded ==
    /\ \E i \in 1..Len(writes) : writes[i].reg = PRE_SCALE
    /\ \A i \in 1..Len(writes) :
         writes[i].reg = PRE_SCALE =>
           /\ writes[i].data = <<RoundHalfUp(25000000, 4096 * call.c) - 1>>
           /\ RoundHalfUp(25000000, 4096 * call.c) - 1 \in 0..255
           /\ call.c = 50 => writes[i].data = <<121>>

\* C3: for every frequency of the chip's valid range (24 Hz to 1526 Hz), the
\* byte setFreq writes to PRE_SCALE is round(25,000,000 / (4096 * freq)) - 1,
\* halves rounding up, an integer in 0..255 (nothing wrapped); 50 Hz gives
\* 121.
C3_PrescaleRounded ==
    (call.op = "PCA9685" /\ call.c \in 24..1526) => PrescaleIsRounded

\* C3 for the frequencies the uint8_t parameter holds: from 24 Hz to 255 Hz
\* the byte written is the rounded value.
C3_PrescaleRoundedUpTo255 ==
    (call.op = "PCA9685" /\ call.c \in 24..255) => PrescaleIsRounded

\* C4: every execution of setFreq (one per constructed driver) makes exactly
\* three single-byte writes, MODE1 <- 0x10, PRE_SCALE <- prescale,
\* MODE1 <- 0xA0, in this order; no call writes PRE_SCALE unless the last
\* value written to MODE1 is 0x10, and when setFreq has returned the last
\* value written to MODE1 is 0xA0.
C4_SetFreqSequence ==
    /\ (call.op = "PCA9685") =>
          /\ Len(writes) = 4
          /\ IsByteWrite(writes[2], MODE1, 16)
          /\ writes[3].kind = "byte" /\ writes[3].reg = PRE_SCALE
          /\ Len(writes[3].data) = 1 /\ writes[3].data[1] \in 0..255
          /\ IsByteWrite(writes[4], MODE1, 160)
          /\ LastMode1(writes, Len(writes), 0) = 160
    /\ \A i \in 1..Len(writes) :
          writes[i].reg = PRE_SCALE =>
              LastMode1(writes, i - 1, writes[i].drv) = 16

\* A constructor ran setFreq at a frequency outside the chip's range.
C4_Witness ==
    /\ call.op = "PCA9685" /\ call.c = 23
    /\ Len(writes) = 4 /\ writes[3].reg = PRE_SCALE

\* C5: the aggregate's constructor initializes the drivers one at a time in
\* configuration order (its writes are, driver after driver, reset and then
\* setFreq's three writes); the first writes of every driver are always
\* these four, so no channel write reaches a driver before them; and once the
\* aggregate is constructed every driver has made all four.
C5_InitializedBeforeUse ==
    /\ (call.op = "MultiPCA9685") =>
          /\ Len(writes) = 4 * numDrivers
          /\ \A k \in 1..numDrivers : \A j \in 1..4 :
                LET w == writes[4 * (k - 1) + j]
                IN  /\ w.drv = k
                    /\ w.bus = busAddressPairs[k][1]
                    /\ w.addr = busAddressPairs[k][2]
                    /\ IsInitWrite(w, j)
    /\ \A id \in DriverIds :
          /\ Len(head[id]) <= 4
          /\ \A j \in 1..Len(head[id]) : IsInitWrite(head[id][j], j)
    /\ (pc = "ready") => \A k \in 1..numDrivers : Len(head[k]) = 4
    /\ \A i \in 1..Len(writes) :
          writes[i].kind = "block" => Len(head[writes[i].drv]) = 4

\* A channel write reached the third driver of a three-driver aggregate.
C5_Witness ==
    /\ IsMultiSetPWM /\ numDrivers = 3
    /\ Len(writes) = 1 /\ writes[1].drv = 3 /\ writes[1].kind = "block"
    /\ Len(head[3]) = 4

\* C6: a MultiPCA9685::setPWM whose driverIndex = flatIndex / 16 is not below
\* numDrivers is made observable: the call prints or reports something.
C6_OutOfRangeReported ==
    (IsMultiSetPWM /\ call.a \div 16 >= call.pre.n) => lines # <<>>

\* C7: a MultiPCA9685::setPWM whose driverIndex is not below numDrivers
\* writes no register, prints nothing (debug flag set or not) and leaves the
\* driver list, numDrivers, the frequency and the debug flag as they were.
C7_OutOfRangeNoEffect ==
    (IsMultiSetPWM /\ call.a \div outputsPerDriver >= call.pre.n) =>
        /\ writes = <<>>
        /\ lines = <<>>
        /\ ObjectsUnchanged
        /\ PCA9685_DEBUG = call.pre.debug

\* An out-of-range setPWM was made with the debug flag set.
C7_Witness ==
    /\ call.op = "setPWM3" /\ call.a = 64 /\ numDrivers = 2
    /\ call.pre.debug /\ PCA9685_DEBUG

\* C8 as stated: the two words PCA9685::setPWM writes are on mod 4096 and
\* off mod 4096.
C8_WordsMasked ==
    (call.op = "PCA9685.setPWM3") =>
        /\ Len(writes) = 1
        /\ Word(writes[1].data, 1) = call.b % 4096
        /\ Word(writes[1].data, 3) = call.c % 4096

\* C8, amended: for every 16-bit on and off given to PCA9685::setPWM the
\* write is made (nothing is rejected) and its two little-endian words are on
\* and off themselves, all 16 bits; they equal on mod 4096 and off mod 4096
\* exactly when the value is at most 4095.
C8_WordsUnmasked ==
    (call.op = "PCA9685.setPWM3") =>
        /\ Len(writes) = 1
        /\ Len(writes[1].data) = 4
        /\ Word(writes[1].data, 1) = call.b
        /\ Word(writes[1].data, 3) = call.c
        /\ (Word(writes[1].data, 1) = call.b % 4096) <=> (call.b <= 4095)
        /\ (Word(writes[1].data, 3) = call.c % 4096) <=> (call.c <= 4095)

\* An on value above 4095 arrived with its bit 12 in the high byte.
C8_Witness ==
    /\ call.op = "PCA9685.setPWM3" /\ call.b = 4096 /\ call.c = 65535
    /\ Len(writes) = 1 /\ writes[1].data = <<0, 16, 255, 255>>

\* C9: at both layers setPWM(x, value) makes the transport calls, prints the
\* lines and leaves the state that setPWM(x, 0, value) does, an out-of-range
\* flat index doing nothing.
C9_OverloadIsOnZero ==
    /\ (call.op = "setPWM2") =>
          /\ writes = MultiPCA9685_setPWM(call.a, 0, call.b).writes
          /\ lines = MultiPCA9685_setPWM(call.a, 0, call.b).lines
          /\ ObjectsUnchanged
          /\ PCA9685_DEBUG = call.pre.debug
          /\ \A i \in 1..Len(writes) :
                Word(writes[i].data, 1) = 0
                /\ Word(writes[i].data, 3) = call.b
          /\ (call.a \div outputsPerDriver >= numDrivers) =>
                writes = <<>> /\ lines = <<>>
    /\ (call.op = "PCA9685.setPWM2") =>
          /\ writes = Via(solo, PCA9685_setPWM(call.a, 0, call.b))
          /\ lines = <<>>
          /\ ObjectsUnchanged
          /\ PCA9685_DEBUG = call.pre.debug
          /\ \A i \in 1..Len(writes) :
                Word(writes[i].data, 1) = 0
                /\ Word(writes[i].data, 3) = call.b

\* The two-argument overload forwarded a write and printed its debug line.
C9_Witness ==
    /\ call.op = "setPWM2" /\ call.b = 4011
    /\ Len(writes) = 1 /\ Len(lines) = 1

\* C10: toggleDebug inverts the flag and changes nothing else (no write, the
\* drivers and the frequency as before), so the second of two consecutive
\* calls restores the flag; an in-range MultiPCA9685::setPWM prints its debug
\* line exactly when the flag is set at the call, and forwards the same write
\* either way.
C10_ToggleDebug ==
    /\ (call.op = "toggleDebug") =>
          /\ PCA9685_DEBUG = ~call.pre.debug
          /\ writes = <<>>
          /\ ObjectsUnchanged
          /\ call.pre.prevToggle => PCA9685_DEBUG = call.pre.prevDebug
    /\ (IsMultiSetPWM /\ call.a \div outputsPerDriver < call.pre.n) =>
          /\ PCA9685_DEBUG = call.pre.debug
          /\ (Len(lines) = 1 /\ lines[1].kind = "setPWM") <=> call.pre.debug
          /\ (lines = <<>>) <=> ~call.pre.debug
          /\ writes = Via(pwmDrivers[(call.a \div outputsPerDriver) + 1],
                          PCA9685_setPWM(call.a % outputsPerDriver,
                                         AskedOn, AskedOff))

\* Two consecutive toggleDebug calls made with the flag set restored it.
C10_Witness ==
    /\ call.op = "toggleDebug" /\ call.pre.prevToggle
    /\ call.pre.prevDebug /\ PCA9685_DEBUG

=============================================================================
